---- MODULE Spec2Model ----
(***************************************************************************)
(* A model of grep.py: a command-line pattern search over a file or a      *)
(* directory tree.  Text is a sequence of one-character strings; the       *)
(* regular-expression engine (re.compile, findall, search) is modelled on  *)
(* a fragment of the dialect: literals, ".", "^", "$", "*", "|", "(...)".  *)
(***************************************************************************)
EXTENDS Integers, Sequences, FiniteSets, TLC

\* ------------------------------------------------------------------ bounds
\* Longest content, in characters, of a file given as the path argument.
MaxLen == 4

\* Longest content, in characters, of a file found under a walked directory.
MaxDirLen == 2

\* ------------------------------------------------------------- characters
NL == "\n"
SP == " "

\* Characters a file may hold.
FileChars == {"a", SP, NL}

\* All texts over FileChars of at most n characters.
RECURSIVE TextsUpTo(_)
TextsUpTo(n) ==
    IF n = 0 THEN {<<>>}
    ELSE LET shorter == TextsUpTo(n - 1)
         IN shorter \cup {Append(t, c) : t \in {u \in shorter : Len(u) = n - 1}, c \in FileChars}


\* ------------------------------------------------------- re.compile (parser)
Lit(c)     == [op |-> "lit", c |-> c]
AnyChar    == [op |-> "any"]
Bol        == [op |-> "bol"]
Eol        == [op |-> "eol"]
Star(n)    == [op |-> "star", sub |-> n]
Cat(items) == [op |-> "cat", items |-> items]
Alt(items) == [op |-> "alt", items |-> items]
Group(n)   == [op |-> "group", sub |-> n]

ParseOk(node, next) == [ok |-> TRUE, node |-> node, next |-> next, err |-> ""]
ParseErr(msg)       == [ok |-> FALSE, node |-> AnyChar, next |-> 0, err |-> msg]

RECURSIVE ParseSub(_, _), ParseBranches(_, _, _), ParseItems(_, _, _)

\* sre_parse._parse: the items of one branch from position i, up to "|", ")" or
\* the end of the pattern (neither consumed).
ParseItems(p, i, items) ==
    IF i > Len(p) \/ p[i] \in {"|", ")"} THEN ParseOk(Cat(items), i)
    ELSE IF p[i] = "*" THEN
        IF items = <<>> \/ items[Len(items)].op \in {"bol", "eol"}
        THEN ParseErr("nothing to repeat")
        ELSE IF items[Len(items)].op = "star" THEN ParseErr("multiple repeat")
        ELSE ParseItems(p, i + 1,
                 Append(SubSeq(items, 1, Len(items) - 1), Star(items[Len(items)])))
    ELSE IF p[i] = "(" THEN
        LET g == ParseSub(p, i + 1)
        IN IF ~g.ok THEN g
           ELSE IF g.next > Len(p) \/ p[g.next] # ")"
           THEN ParseErr("missing ), unterminated subpattern")
           ELSE ParseItems(p, g.next + 1, Append(items, Group(g.node)))
    ELSE IF p[i] = "^" THEN ParseItems(p, i + 1, Append(items, Bol))
    ELSE IF p[i] = "$" THEN ParseItems(p, i + 1, Append(items, Eol))
    ELSE IF p[i] = "." THEN ParseItems(p, i + 1, Append(items, AnyChar))
    ELSE ParseItems(p, i + 1, Append(items, Lit(p[i])))

\* The branches of an alternation, each parsed by ParseItems.
ParseBranches(p, i, branches) ==
    LET b == ParseItems(p, i, <<>>)
    IN IF ~b.ok THEN b
       ELSE IF b.next <= Len(p) /\ p[b.next] = "|"
       THEN ParseBranches(p, b.next + 1, Append(branches, b.node))
       ELSE ParseOk(Alt(Append(branches, b.node)), b.next)

\* sre_parse._parse_sub
ParseSub(p, i) == ParseBranches(p, i, <<>>)

\* re.compile(pattern, flags): the matcher, or the re.error message.
Compile(p, ignore_case) ==
    LET r == ParseSub(p, 1)
    IN IF ~r.ok THEN [ok |-> FALSE, err |-> r.err, node |-> AnyChar, ignore_case |-> ignore_case]
       ELSE IF r.next <= Len(p)
       THEN [ok |-> FALSE, err |-> "unbalanced parenthesis", node |-> AnyChar,
             ignore_case |-> ignore_case]
       ELSE [ok |-> TRUE, err |-> "", node |-> r.node, ignore_case |-> ignore_case]

\* ------------------------------------------------------------ the matcher
\* Case folding under re.IGNORECASE.
Lower(c) == IF c = "A" THEN "a" ELSE IF c = "B" THEN "b" ELSE c

CharEq(ic, c, d) == IF ic THEN Lower(c) = Lower(d) ELSE c = d

RECURSIVE Ends(_, _, _, _), CatEnds(_, _, _, _, _), AltEnds(_, _, _, _, _),
          StarEnds(_, _, _, _, _), Continue(_, _, _, _, _, _, _)

\* The positions at which a match of node that starts at position i of s can
\* end, in the order the backtracking engine tries them (i is the index of
\* the next unread character, 1..Len(s)+1).
Ends(ic, node, s, i) ==
    CASE node.op = "lit"   -> IF i <= Len(s) /\ CharEq(ic, s[i], node.c) THEN <<i + 1>> ELSE <<>>
      [] node.op = "any"   -> IF i <= Len(s) /\ s[i] # NL THEN <<i + 1>> ELSE <<>>
      [] node.op = "bol"   -> IF i = 1 THEN <<i>> ELSE <<>>
      [] node.op = "eol"   -> IF i = Len(s) + 1 \/ (i = Len(s) /\ s[i] = NL) THEN <<i>> ELSE <<>>
      [] node.op = "group" -> Ends(ic, node.sub, s, i)
      [] node.op = "cat"   -> CatEnds(ic, node.items, 1, s, i)
      [] node.op = "alt"   -> AltEnds(ic, node.items, 1, s, i)
      [] node.op = "star"  -> StarEnds(ic, node.sub, s, i, 0)

\* For each position of js in order: what f yields from there, concatenated.
\* kind "cat": the items of a sequence from the k-th on; kind "star": further
\* iterations of a greedy repeat whose last iteration started at last.
Continue(kind, ic, x, k, s, js, last) ==
    IF js = <<>> THEN <<>>
    ELSE (IF kind = "cat" THEN CatEnds(ic, x, k, s, Head(js))
          ELSE StarEnds(ic, x, s, Head(js), last))
         \o Continue(kind, ic, x, k, s, Tail(js), last)

CatEnds(ic, items, k, s, i) ==
    IF k > Len(items) THEN <<i>>
    ELSE Continue("cat", ic, items, k + 1, s, Ends(ic, items[k], s, i), 0)

AltEnds(ic, items, k, s, i) ==
    IF k > Len(items) THEN <<>>
    ELSE Ends(ic, items[k], s, i) \o AltEnds(ic, items, k + 1, s, i)

\* Greedy "*": one more iteration first, unless the previous iteration consumed
\* nothing (it started at last = i), then the rest of the pattern.
StarEnds(ic, sub, s, i, last) ==
    (IF i # last THEN Continue("star", ic, sub, 0, s, Ends(ic, sub, s, i), i) ELSE <<>>)
    \o <<i>>

\* The end of the match the engine reports at start position i, 0 when there
\* is none; with must_advance an empty match is not accepted.
MatchEnd(regex, s, i, must_advance) ==
    LET es == Ends(regex.ignore_case, regex.node, s, i)
        ok == {k \in 1..Len(es) : ~must_advance \/ es[k] # i}
    IN IF ok = {} THEN 0 ELSE es[CHOOSE k \in ok : \A m \in ok : k <= m]

\* regex.search(s): is there a match starting anywhere in s
Search(regex, s) == \E i \in 1..(Len(s) + 1) : MatchEnd(regex, s, i, FALSE) # 0

RECURSIVE CountFrom(_, _, _, _)
\* The scan of findall from position i: the number of matches found.  After
\* an empty match the scan stays where it is and must advance.
CountFrom(regex, s, i, must_advance) ==
    IF i > Len(s) + 1 THEN 0
    ELSE LET e == MatchEnd(regex, s, i, must_advance)
         IN IF e = 0 THEN CountFrom(regex, s, i + 1, FALSE)
            ELSE 1 + CountFrom(regex, s, e, e = i)

\* len(regex.findall(s))
FindallCount(regex, s) == CountFrom(regex, s, 1, FALSE)

\* ------------------------------------------------------------ file text
\* The lines a text file yields when iterated: each ends after its "\n"; a
\* last line without "\n" is yielded as it is; an empty file yields none.
RECURSIVE SplitLines(_, _)
SplitLines(s, cur) ==
    IF s = <<>> THEN (IF cur = <<>> THEN <<>> ELSE <<cur>>)
    ELSE IF Head(s) = NL THEN <<Append(cur, NL)>> \o SplitLines(Tail(s), <<>>)
    ELSE SplitLines(Tail(s), Append(cur, Head(s)))

Lines(contents) == SplitLines(contents, <<>>)

\* str.strip(): whitespace removed from both ends.
WHITESPACE == {SP, NL}

RECURSIVE LStrip(_), RStrip(_)
LStrip(s) == IF s # <<>> /\ Head(s) \in WHITESPACE THEN LStrip(Tail(s)) ELSE s
RStrip(s) ==
    IF s # <<>> /\ s[Len(s)] \in WHITESPACE THEN RStrip(SubSeq(s, 1, Len(s) - 1)) ELSE s

Strip(s) == LStrip(RStrip(s))

\* ------------------------------------------------------------ the output
\* One printed line.  kind "count" is "{path}: {n}", kind "path" is "{path}",
\* kind "line" is "{path}:{n}:{text}"; the other kinds are the diagnostics
\* "{kind}: {detail}" and "{kind} {path}: {detail}".
OutLine(kind, path, n, text, detail) ==
    [kind |-> kind, path |-> path, n |-> n, text |-> text, detail |-> detail]

CountLine(path, n)       == OutLine("count", path, n, <<>>, "")
PathLine(path)           == OutLine("path", path, 0, <<>>, "")
MatchLine(path, n, text) == OutLine("line", path, n, text, "")

InvalidRegexLine(e)         == OutLine("Invalid regular expression", <<>>, 0, <<>>, e)
PathMissingLine(path)       == OutLine("Path does not exist", path, 0, <<>>, "")
CannotReadLine(path, e)     == OutLine("Cannot read file", path, 0, <<>>, e)
ErrorReadingLine(path, e)   == OutLine("Error reading", path, 0, <<>>, e)

REPORT_KINDS == {"count", "path", "line"}

\* ------------------------------------------------------- the file system
\* A file as an open() finds it: unreadable (open or read raises), readable,
\* or readable once and gone when it is opened again.
FileStates(maxlen) ==
    {[mode |-> "unreadable", contents |-> <<>>]}
    \cup {[mode |-> m, contents |-> c] : m \in {"ok", "vanishes"}, c \in TextsUpTo(maxlen)}

OSError == "OSError"

\* A directory: the names of its files and its subdirectories, as listed.
Dir(files, dirs) == [files |-> files, dirs |-> dirs]
Sub(name, tree)  == [name |-> name, tree |-> tree]

Trees ==
    { Dir(<<>>, <<>>),
      Dir(<<"f1">>, <<Sub("sub", Dir(<<"f2">>, <<>>))>>),
      Dir(<<>>, <<Sub("sub", Dir(<<>>, <<Sub("deep", Dir(<<"f3">>, <<>>))>>))>>) }

\* What the path argument names.
FileSystems ==
    {[kind |-> "missing", tree |-> Dir(<<>>, <<>>)], [kind |-> "file", tree |-> Dir(<<>>, <<>>)]}
    \cup {[kind |-> "dir", tree |-> t] : t \in Trees}

\* os.path.join(root, file)
Join(root, name) == Append(root, name)

RECURSIVE Walk(_, _), WalkDirs(_, _, _)
\* The file paths of the loop over os.walk(path), in the order it yields
\* them: a directory's own files, then each subdirectory in turn.
Walk(root, tree) ==
    [k \in 1..Len(tree.files) |-> Join(root, tree.files[k])] \o WalkDirs(root, tree.dirs, 1)

WalkDirs(root, dirs, k) ==
    IF k > Len(dirs) THEN <<>>
    ELSE Walk(Join(root, dirs[k].name), dirs[k].tree) \o WalkDirs(root, dirs, k + 1)

\* ------------------------------------------------------------ the inputs
Patterns ==
    { <<"a">>, <<"A">>, <<"^", "a">>, <<"a", "$">>, <<"a", "*">>, <<"a", NL, "a">>,
      <<"(", "a", "|", SP, ")", "a">>, <<"(">>, <<"a", ")">>, <<"*">> }

RootPath == <<"root">>

Args ==
    [pattern : Patterns, path : {RootPath}, ignore_case : BOOLEAN,
     not_match : BOOLEAN, count : BOOLEAN]

\* ------------------------------------------------------------ reporting
\* handle_not_match with the num_matches == 0 test left out of count mode.
HandleNotMatchAlwaysCount(file_path, num_matches, a) ==
    IF a.count THEN <<CountLine(file_path, num_matches)>>
    ELSE IF num_matches = 0 THEN <<PathLine(file_path)>>
    ELSE <<>>

\* handle_not_match with the num_matches == 0 test left out of listing mode.
HandleNotMatchAlwaysPath(file_path, num_matches, a) ==
    IF a.count THEN (IF num_matches = 0 THEN <<CountLine(file_path, 0)>> ELSE <<>>)
    ELSE <<PathLine(file_path)>>

\* handle_not_match
HandleNotMatch(file_path, num_matches, a) ==
    IF num_matches = 0
    THEN IF a.count THEN <<CountLine(file_path, 0)>> ELSE <<PathLine(file_path)>>
    ELSE <<>>

RECURSIVE MatchingLines(_, _, _, _)
\* The loop of print_matching_lines over the lines from the n-th on.
MatchingLines(file_path, re, lines, n) ==
    IF n > Len(lines) THEN <<>>
    ELSE (IF Search(re, lines[n]) THEN <<MatchLine(file_path, n, Strip(lines[n]))>> ELSE <<>>)
         \o MatchingLines(file_path, re, lines, n + 1)

\* print_matching_lines: the file is opened a second time.
PrintMatchingLines(file_path, re, file) ==
    IF file.mode = "vanishes" THEN <<ErrorReadingLine(file_path, OSError)>>
    ELSE MatchingLines(file_path, re, Lines(file.contents), 1)

\* handle_match printing the number of matching lines for the count.
HandleMatchCountsLines(file_path, re, num_matches, a, file) ==
    IF a.count
    THEN <<CountLine(file_path, Len(MatchingLines(file_path, re, Lines(file.contents), 1)))>>
    ELSE IF num_matches > 0 THEN PrintMatchingLines(file_path, re, file)
    ELSE <<>>

\* handle_match
HandleMatch(file_path, re, num_matches, a, file) ==
    IF a.count THEN <<CountLine(file_path, num_matches)>>
    ELSE IF num_matches > 0 THEN PrintMatchingLines(file_path, re, file)
    ELSE <<>>

\* process_file returning early on a file without content.
ProcessFileSkipsEmpty(file_path, re, a, file) ==
    IF file.mode = "unreadable" THEN <<CannotReadLine(file_path, OSError)>>
    ELSE IF file.contents = <<>> THEN <<>>
    ELSE LET num_matches == FindallCount(re, file.contents)
         IN IF a.not_match THEN HandleNotMatch(file_path, num_matches, a)
            ELSE HandleMatch(file_path, re, num_matches, a, file)

\* process_file: what it prints for one file.
ProcessFileOut(file_path, re, a, file) ==
    IF file.mode = "unreadable" THEN <<CannotReadLine(file_path, OSError)>>
    ELSE LET num_matches == FindallCount(re, file.contents)
         IN IF a.not_match THEN HandleNotMatch(file_path, num_matches, a)
            ELSE HandleMatch(file_path, re, num_matches, a, file)

\* ------------------------------------------------------------ the program
VARIABLES
    args,       \* the parsed command line
    fs,         \* what the path argument names, and the tree below it
    pc,         \* where main is: "start", "compiled", "walking", "done"
    regex,      \* the result of re.compile
    queue,      \* the file paths the loop has still to process
    stdout,     \* the lines printed to standard output
    stderr,     \* the lines printed to standard error
    exitCode,   \* the exit status once pc = "done", -1 before
    last,       \* the file process_file was last called on, as it found it
    mark,       \* Len(stdout) when that call began
    opens,      \* the number of process_file calls (first open of a file)
    failures,   \* how many of them could not read their file
    compiles,   \* the number of re.compile calls
    inspected   \* whether the path has been looked at (isfile/isdir)

vars == <<args, fs, pc, regex, queue, stdout, stderr, exitCode, last, mark, opens,
          failures, compiles, inspected>>

NoFile == [path |-> <<>>, mode |-> "none", contents |-> <<>>]

Init ==
    /\ args \in Args
    /\ fs \in FileSystems
    /\ pc = "start"
    /\ regex = [ok |-> FALSE, err |-> "", node |-> AnyChar, ignore_case |-> FALSE]
    /\ queue = <<>>
    /\ stdout = <<>>
    /\ stderr = <<>>
    /\ exitCode = -1
    /\ last = NoFile
    /\ mark = 0
    /\ opens = 0
    /\ failures = 0
    /\ compiles = 0
    /\ inspected = FALSE

\* main without the sys.exit(1) of line 25: the error is printed and the run
\* goes on with the matcher it has.
MainCompileContinues ==
    /\ pc = "start"
    /\ LET r == Compile(args.pattern, args.ignore_case)
       IN /\ regex' = r
          /\ compiles' = compiles + 1
          /\ pc' = "compiled"
          /\ stdout' = IF r.ok THEN stdout ELSE Append(stdout, InvalidRegexLine(r.err))
    /\ UNCHANGED <<args, fs, queue, stderr, exitCode, last, mark, opens, failures, inspected>>

\* main, lines 20-25: compile the pattern, or print the error and exit 1.
MainCompile ==
    /\ pc = "start"
    /\ LET r == Compile(args.pattern, args.ignore_case)
       IN /\ regex' = r
          /\ compiles' = compiles + 1
          /\ IF r.ok
             THEN /\ pc' = "compiled"
                  /\ UNCHANGED <<stdout, exitCode>>
             ELSE /\ pc' = "done"
                  /\ stdout' = Append(stdout, InvalidRegexLine(r.err))
                  /\ exitCode' = 1
    /\ UNCHANGED <<args, fs, queue, stderr, last, mark, opens, failures, inspected>>

\* main, lines 27-36: a file is processed alone, a directory is walked,
\* anything else is reported and the run exits 1.
MainDispatch ==
    /\ pc = "compiled"
    /\ inspected' = TRUE
    /\ \/ /\ fs.kind = "file"
          /\ queue' = <<args.path>>
          /\ pc' = "walking"
          /\ UNCHANGED <<stdout, exitCode>>
       \/ /\ fs.kind = "dir"
          /\ queue' = Walk(args.path, fs.tree)
          /\ pc' = "walking"
          /\ UNCHANGED <<stdout, exitCode>>
       \/ /\ fs.kind = "missing"
          /\ stdout' = Append(stdout, PathMissingLine(args.path))
          /\ exitCode' = 1
          /\ pc' = "done"
          /\ UNCHANGED queue
    /\ UNCHANGED <<args, fs, regex, stderr, last, mark, opens, failures, compiles>>

\* process_file letting the read error end the run instead of returning.
ProcessFileAborts ==
    /\ pc = "walking"
    /\ queue # <<>>
    /\ \E file \in FileStates(IF fs.kind = "file" THEN MaxLen ELSE MaxDirLen) :
          /\ last' = [path |-> Head(queue), mode |-> file.mode, contents |-> file.contents]
          /\ stdout' = stdout \o ProcessFileOut(Head(queue), regex, args, file)
          /\ failures' = IF file.mode = "unreadable" THEN failures + 1 ELSE failures
          /\ pc' = IF file.mode = "unreadable" THEN "done" ELSE pc
          /\ exitCode' = IF file.mode = "unreadable" THEN 1 ELSE exitCode
    /\ mark' = Len(stdout)
    /\ opens' = opens + 1
    /\ queue' = Tail(queue)
    /\ UNCHANGED <<args, fs, regex, stderr, compiles, inspected>>

\* One call of process_file, on the next path of the loop.
ProcessFile ==
    /\ pc = "walking"
    /\ queue # <<>>
    /\ \E file \in FileStates(IF fs.kind = "file" THEN MaxLen ELSE MaxDirLen) :
          /\ last' = [path |-> Head(queue), mode |-> file.mode, contents |-> file.contents]
          /\ stdout' = stdout \o ProcessFileOut(Head(queue), regex, args, file)
          /\ failures' = IF file.mode = "unreadable" THEN failures + 1 ELSE failures
    /\ mark' = Len(stdout)
    /\ opens' = opens + 1
    /\ queue' = Tail(queue)
    /\ UNCHANGED <<args, fs, pc, regex, stderr, exitCode, compiles, inspected>>

\* main returns: the loop is over and the process exits 0.
MainReturn ==
    /\ pc = "walking"
    /\ queue = <<>>
    /\ pc' = "done"
    /\ exitCode' = 0
    /\ UNCHANGED <<args, fs, regex, queue, stdout, stderr, last, mark, opens, failures,
                   compiles, inspected>>

Next == MainCompile \/ MainDispatch \/ ProcessFile \/ MainReturn

Spec == Init /\ [][Next]_vars

\* ------------------------------------------------------------ properties
\* What the last process_file call printed.
LastOut == SubSeq(stdout, mark + 1, Len(stdout))

\* The last process_file call read its file (the first open succeeded).
Scanned == last.mode \in {"ok", "vanishes"}

\* The whole-content match count of the file last processed.
NumMatches == FindallCount(regex, last.contents)

LineMode == ~args.not_match /\ ~args.count

ReportLines(out) == SelectSeq(out, LAMBDA l : l.kind \in REPORT_KINDS)

RECURSIVE SortedSeq(_)
\* The numbers of a finite set in increasing order.
SortedSeq(S) ==
    IF S = {} THEN <<>>
    ELSE LET m == CHOOSE x \in S : \A y \in S : x <= y
         IN <<m>> \o SortedSeq(S \ {m})

\* The 1-based indices of the lines of the last file that match on their own.
MatchingLineNumbers ==
    LET lines == Lines(last.contents)
    IN SortedSeq({n \in 1..Len(lines) : Search(regex, lines[n])})

RECURSIVE RStripNL(_)
\* A line with its trailing line terminators removed, and nothing else.
RStripNL(s) ==
    IF s # <<>> /\ s[Len(s)] = NL THEN RStripNL(SubSeq(s, 1, Len(s) - 1)) ELSE s

\* C1 as stated: with invert and count both set, every file that is read gets
\* exactly one line "{path}: {k}", whatever its match count k.
C1_AlwaysPrintsCount ==
    (args.not_match /\ args.count /\ Scanned)
        => LastOut = <<CountLine(last.path, NumMatches)>>

\* C1 amended: with invert and count both set, a file that is read gets exactly
\* one line "{path}: 0" when its match count is 0 and no line at all when its
\* match count is greater than 0.
C1_CountOnlyWhenZero ==
    (args.not_match /\ args.count /\ Scanned)
        => LastOut = IF NumMatches = 0 THEN <<CountLine(last.path, 0)>> ELSE <<>>

C1_Witness ==
    /\ args.not_match /\ args.count /\ Scanned
    /\ NumMatches > 0
    /\ LastOut = <<>>

\* C2: in line-listing mode the line numbers printed for a file are exactly the
\* 1-based indices of the lines that match when tested alone, each once and in
\* increasing order.
C2_PrintsExactlyMatchingLines ==
    (LineMode /\ last.mode = "ok")
        => /\ \A k \in 1..Len(LastOut) : LastOut[k].kind = "line" /\ LastOut[k].path = last.path
           /\ [k \in 1..Len(LastOut) |-> LastOut[k].n] = MatchingLineNumbers

\* C3: in count mode without invert every file that is read gets exactly one
\* line "{path}: {k}", k the number of non-overlapping matches in the whole
\* content (for the literal pattern "a": the number of "a" in the content),
\* k = 0 included.
C3_CountLine ==
    (args.count /\ ~args.not_match /\ Scanned)
        => /\ LastOut = <<CountLine(last.path, NumMatches)>>
           /\ (args.pattern = <<"a">> /\ ~args.ignore_case)
                 => LastOut[1].n
                      = Cardinality({i \in 1..Len(last.contents) : last.contents[i] = "a"})

C3_Witness ==
    /\ args.count /\ ~args.not_match /\ Scanned
    /\ Len(Lines(last.contents)) = 1
    /\ LastOut = <<CountLine(last.path, 2)>>

\* C4: with invert and without count, a file that is read gets the bare line
\* "{path}" if and only if its whole-content match count is 0, and nothing
\* when the count is greater than 0.
C4_PathIffNoMatch ==
    (args.not_match /\ ~args.count /\ Scanned)
        => LastOut = IF NumMatches = 0 THEN <<PathLine(last.path)>> ELSE <<>>

C4_Witness ==
    /\ args.not_match /\ ~args.count /\ Scanned
    /\ NumMatches = 0
    /\ last.contents # <<>>
    /\ LastOut = <<PathLine(last.path)>>

\* C5: the pattern is compiled exactly once, before the path is inspected and
\* before any file is opened; an invalid pattern (such as "(") ends the run
\* with exit code 1, with no file opened, no path inspected and no report
\* line printed.
C5_InvalidPatternStopsFirst ==
    /\ compiles <= 1
    /\ (opens > 0 \/ inspected) => (compiles = 1 /\ regex.ok)
    /\ (compiles = 1 /\ ~regex.ok)
          => /\ pc = "done" /\ exitCode = 1
             /\ opens = 0 /\ ~inspected /\ last = NoFile
             /\ ReportLines(stdout) = <<>>
    /\ (args.pattern = <<"(">> /\ pc # "start") => ~regex.ok

C5_Witness ==
    /\ args.pattern = <<"(">>
    /\ fs.kind = "dir"
    /\ pc = "done"
    /\ exitCode = 1

\* The number of files the walk of the path argument yields.
WalkLength == IF fs.kind = "file" THEN 1 ELSE Len(Walk(args.path, fs.tree))

\* C6: a file that cannot be read does not end the run: it gets no report
\* line, every file of the walk is still processed and reported as it is
\* without the failure, and the run ends with exit code 0 however many
\* files were unreadable.
C6_ReadFailureIsolated ==
    /\ (last.mode = "unreadable")
          => (ReportLines(LastOut) = <<>> /\ exitCode # 1 /\ (pc = "done" => queue = <<>>))
    /\ (failures > 0 /\ pc = "walking") => opens + Len(queue) = WalkLength
    /\ (failures > 0 /\ Scanned)
          => LastOut = ProcessFileOut(last.path, regex, args,
                                      [mode |-> last.mode, contents |-> last.contents])
    /\ (pc = "done" /\ regex.ok /\ fs.kind # "missing")
          => (exitCode = 0 /\ opens = WalkLength)

C6_Witness ==
    /\ pc = "done" /\ exitCode = 0
    /\ failures = 1 /\ opens = 2
    /\ last.mode = "ok"
    /\ ReportLines(LastOut) # <<>>

\* C7: a path argument that is neither a file nor a directory ends the run
\* with exit code 1, nothing written to standard output and no file scanned.
C7_MissingPathNoOutput ==
    (fs.kind = "missing" /\ regex.ok /\ pc = "done")
        => (exitCode = 1 /\ stdout = <<>> /\ opens = 0)

\* C8: every diagnostic goes to standard error: standard output holds report
\* lines only, and a read failure puts "Cannot read file {path}: {cause}" on
\* standard error.
C8_DiagnosticsOnStderr ==
    /\ \A k \in 1..Len(stdout) : stdout[k].kind \in REPORT_KINDS
    /\ (last.mode = "unreadable")
          => \E k \in 1..Len(stderr) : stderr[k] = CannotReadLine(last.path, OSError)

\* The pattern can match the empty string.
MatchesEmpty == Search(regex, <<>>)

\* C9 as stated: for every valid pattern and an empty file the match count is
\* 0: line-listing prints nothing, count mode prints "{path}: 0" and invert
\* mode lists the file.
C9_EmptyFileCountZero ==
    (Scanned /\ last.contents = <<>>)
        => /\ NumMatches = 0
           /\ LineMode => ReportLines(LastOut) = <<>>
           /\ (args.count /\ ~args.not_match) => LastOut = <<CountLine(last.path, 0)>>
           /\ (args.not_match /\ ~args.count) => LastOut = <<PathLine(last.path)>>

\* C9 amended: for an empty file and a valid pattern that cannot match the
\* empty string the match count is 0, count mode prints "{path}: 0" and invert
\* mode lists the file; for a valid pattern that can match the empty string
\* the count is 1, count mode prints "{path}: 1" and invert mode does not list
\* the file.  Line-listing mode prints no line for the file in either case.
C9_EmptyFileCount ==
    (Scanned /\ last.contents = <<>>)
        => LET k == IF MatchesEmpty THEN 1 ELSE 0
           IN /\ NumMatches = k
              /\ LineMode => ReportLines(LastOut) = <<>>
              /\ (LineMode /\ last.mode = "ok") => LastOut = <<>>
              /\ (args.count /\ ~args.not_match) => LastOut = <<CountLine(last.path, k)>>
              /\ (args.not_match /\ ~args.count)
                    => LastOut = IF k = 0 THEN <<PathLine(last.path)>> ELSE <<>>

C9_Witness ==
    /\ Scanned /\ last.contents = <<>>
    /\ args.pattern = <<"a", "*">>
    /\ args.count /\ ~args.not_match
    /\ LastOut = <<CountLine(last.path, 1)>>

\* C10: the text of each line printed in line-listing mode is the line of the
\* file with only its trailing line terminators removed: leading whitespace
\* and trailing whitespace that is no terminator are kept.
C10_OnlyTerminatorsTrimmed ==
    (LineMode /\ last.mode = "ok")
        => \A k \in 1..Len(LastOut) :
              LastOut[k].kind = "line"
                 => LastOut[k].text = RStripNL(Lines(last.contents)[LastOut[k].n])
====
